---- MODULE Spec2Model ----
(***************************************************************************)
(* Affirmly storage module: content-addressed entries, the merkleTree      *)
(* version records and the inverted index, all kept in one IndexedDB       *)
(* database (src/unnamed/part_000).                                        *)
(*                                                                         *)
(* An IndexedDB transaction is isolated and atomic: transactions whose     *)
(* scopes overlap (one of them readwrite) run in the order they were       *)
(* created, and an aborted transaction leaves nothing behind.  Every       *)
(* transaction of the module is therefore one step of the model, taken at  *)
(* the point the code creates it; the awaits between two transactions of   *)
(* one call are where other calls interleave.                              *)
(***************************************************************************)
EXTENDS Integers, Sequences, FiniteSets, TLC

(***************************************************************************)
(* Bounds of the model.                                                    *)
(***************************************************************************)
\* the calls (save, search, delete, clear) one caller makes one after another
MaxOps == 3
\* the calls two callers make overlapping one another
MaxCalls == 2
\* the greatest value the clock read by new Date() reaches
MaxClock == 3

(***************************************************************************)
(* Values.                                                                 *)
(***************************************************************************)
\* null (parentHash = null): digests are 1, 2, ..., so 0 is no digest
Null == 0

\* the result of get() on a key that has no row
undefined == [undefined |-> TRUE]

\* the callers: overlapping asynchronous calls of one browser session
Procs == {1, 2}

(***************************************************************************)
(* Text and tokenize.  A text is a sequence of one-character strings.      *)
(***************************************************************************)
\* \w of the regular expression
WordChars == {"a", "b", "A", "B"}

\* String.prototype.toLowerCase, character by character
LowerChar(c) ==
  CASE c = "A" -> "a"
    [] c = "B" -> "b"
    [] OTHER -> c

toLowerCase(text) == [i \in 1..Len(text) |-> LowerChar(text[i])]

\* text.match(/\b\w+\b/g): the maximal runs of word characters, in order
RECURSIVE MatchWords(_, _, _, _)
MatchWords(text, i, cur, acc) ==
  IF i > Len(text)
    THEN IF cur = <<>> THEN acc ELSE Append(acc, cur)
    ELSE IF text[i] \in WordChars
      THEN MatchWords(text, i + 1, Append(cur, text[i]), acc)
      ELSE MatchWords(text, i + 1, <<>>,
                      IF cur = <<>> THEN acc ELSE Append(acc, cur))

\* tokenize(text): match(...) || []
tokenize(text) == MatchWords(toLowerCase(text), 1, <<>>, <<>>)

\* [...new Set(words)]: the first occurrence of each word, in order
RECURSIVE Unique(_, _)
Unique(words, acc) ==
  IF words = <<>> THEN acc
  ELSE Unique(Tail(words),
              IF \E i \in 1..Len(acc) : acc[i] = Head(words)
                THEN acc ELSE Append(acc, Head(words)))

uniqueWords(words) == Unique(words, <<>>)

Range(s) == {s[i] : i \in 1..Len(s)}

(***************************************************************************)
(* Documents (entryData).  A JavaScript object is its properties in        *)
(* insertion order: a sequence of <<key, value>>.                          *)
(***************************************************************************)
Doc(title, description, affirmations) ==
  << <<"title", title>>, <<"description", description>>,
     <<"affirmations", affirmations>> >>

\* "A", no description
DocA1 == Doc(<<"A">>, <<>>, <<"x">>)
\* the same title and description with other affirmations: an edit of DocA1
DocA2 == Doc(<<"A">>, <<>>, <<"y">>)
\* another document, with the word b only
DocB == Doc(<<"b">>, <<"B", "!">>, <<"x">>)

Docs == {DocA1, DocA2, DocB}

\* the object with the properties of doc, description supplied before title
Reordered(doc) == <<doc[2], doc[1], doc[3]>>

\* the objects handed to hashEntry: the documents, in either order of fields
Objects == Docs \cup {Reordered(d) : d \in Docs}

\* entryData.title, entryData.description
Field(doc, key) ==
  LET i == CHOOSE i \in 1..Len(doc) : doc[i][1] = key IN doc[i][2]

\* JSON.stringify(entry): the properties in the object's own order
RECURSIVE JSONstringify(_)
JSONstringify(doc) ==
  IF doc = <<>> THEN <<>>
  ELSE <<Head(doc)[1], ":", Head(doc)[2], ",">> \o JSONstringify(Tail(doc))

\* the serialized forms the digests below stand for
Preimages ==
  <<JSONstringify(DocA1), JSONstringify(DocA2), JSONstringify(DocB),
    JSONstringify(Reordered(DocA1)), JSONstringify(Reordered(DocA2)),
    JSONstringify(Reordered(DocB))>>

\* sha256(content): a collision-free digest, the digest of a content being
\* its place in Preimages
sha256(content) == CHOOSE i \in 1..Len(Preimages) : Preimages[i] = content

\* hashEntry(entry)
hashEntry(entry) == sha256(JSONstringify(entry))

Hashes == {hashEntry(d) : d \in Docs}

\* the queries searched for: one word, two words, the empty string, and
\* whitespace and punctuation only
Queries == {<<"a">>, <<"A", " ", "b">>, <<>>, <<" ", "!">>}

(***************************************************************************)
(* Object stores.  A store is the set of its rows; the key path ('hash' or *)
(* 'word') names the field that holds a row's key.                         *)
(***************************************************************************)
\* faulty variant: a store with no key path, where put adds a row
putAdd(store, row) == store \cup {row}

\* objectStore.put(row), key path 'hash': the row replaces the one of its key
put(store, row) == {r \in store : r.hash # row.hash} \cup {row}

\* objectStore.get(key), key path 'hash'
get(store, key) ==
  IF \E r \in store : r.hash = key
    THEN CHOOSE r \in store : r.hash = key
    ELSE undefined

\* faulty variant: the delete takes the rows of the root with it
deleteVersions(store, key) ==
  {r \in store : r.hash # key /\ r.rootHash # key}

\* objectStore.delete(key), key path 'hash'
delete(store, key) == {r \in store : r.hash # key}

\* objectStore.put(row), key path 'word'
putWord(store, row) == {r \in store : r.word # row.word} \cup {row}

\* objectStore.get(key), key path 'word'
getWord(store, word) ==
  IF \E r \in store : r.word = word
    THEN CHOOSE r \in store : r.word = word
    ELSE undefined

\* objectStore.getAll(): the rows in ascending order of their key
RECURSIVE getAll(_)
getAll(store) ==
  IF store = {} THEN <<>>
  ELSE LET first == CHOOSE r \in store : \A o \in store : r.hash <= o.hash
       IN <<first>> \o getAll(store \ {first})

\* faulty variant: the rows as they were fetched, the sort left out
unsorted(rows) == rows

\* entries.sort((a, b) => new Date(b.timestamp) - new Date(a.timestamp)):
\* a stable sort, the rows of equal timestamp keep their order
RECURSIVE sortDescending(_)
sortDescending(rows) ==
  IF rows = <<>> THEN <<>>
  ELSE LET n == Len(rows)
           x == rows[n]
           sorted == sortDescending(SubSeq(rows, 1, n - 1))
           k == Cardinality({i \in 1..Len(sorted) : sorted[i].timestamp >= x.timestamp})
       IN SubSeq(sorted, 1, k) \o <<x>> \o SubSeq(sorted, k + 1, Len(sorted))

\* entries.sort((a, b) => new Date(a.timestamp) - new Date(b.timestamp)):
\* ascending by timestamp, rows of equal timestamp keeping their order
RECURSIVE sortAscending(_)
sortAscending(rows) ==
  IF rows = <<>> THEN <<>>
  ELSE LET n == Len(rows)
           x == rows[n]
           sorted == sortAscending(SubSeq(rows, 1, n - 1))
           k == Cardinality({i \in 1..Len(sorted) : sorted[i].timestamp <= x.timestamp})
       IN SubSeq(sorted, 1, k) \o <<x>> \o SubSeq(sorted, k + 1, Len(sorted))

\* getMerkleTree(): getAll of the merkleTree store, then the sort
getMerkleTree(merkle) == sortAscending(getAll(merkle))

\* faulty variant: entries[0] of the rows in key order, the sort left out
getFirstMerkleEntry(store) ==
  IF store = {} THEN undefined ELSE getAll(store)[1]

\* getLastMerkleEntry(): null when the store is empty, else entries[0] of the
\* rows sorted by timestamp, most recent first
getLastMerkleEntry(store) ==
  IF store = {} THEN undefined ELSE sortDescending(getAll(store))[1]

(***************************************************************************)
(* saveEntry: the rows it writes.                                          *)
(***************************************************************************)
\* faulty variant: rootHash is left unset until a parent is resolved
InitialRootHashUnset(hash) == Null

\* let rootHash = hash
InitialRootHash(hash) == hash

\* faulty variant: no fallback to parentHash when the parent is missing
ParentRootHashOrNull(parentMerkle, parentHash) ==
  IF parentMerkle # undefined THEN parentMerkle.rootHash ELSE Null

\* rootHash = parentMerkle?.rootHash || parentHash
ParentRootHash(parentMerkle, parentHash) ==
  IF parentMerkle # undefined /\ parentMerkle.rootHash # Null
    THEN parentMerkle.rootHash
    ELSE parentHash

\* parentHash = lastMerkleEntry ? lastMerkleEntry.hash : null
DefaultParentHash(lastMerkleEntry) ==
  IF lastMerkleEntry # undefined THEN lastMerkleEntry.hash ELSE Null

\* faulty variant: the Entry holds its own hash as rootHash
EntryRowOwnRoot(hash, entryData, timestamp, rootHash) ==
  [hash |-> hash, content |-> entryData,
   timestamp |-> timestamp, rootHash |-> hash]

\* faulty variant: the Entry holds the serialised document
EntryRowSerialised(hash, entryData, timestamp, rootHash) ==
  [hash |-> hash, content |-> JSONstringify(entryData),
   timestamp |-> timestamp, rootHash |-> rootHash]

\* const entry = { hash, content: entryData, timestamp, rootHash }
EntryRow(hash, entryData, timestamp, rootHash) ==
  [hash |-> hash, content |-> entryData, timestamp |-> timestamp,
   rootHash |-> rootHash]

\* faulty variant: the action tells whether the record starts a root
MerkleRowByRoot(hash, parentHash, timestamp, rootHash) ==
  [hash |-> hash, parentHash |-> parentHash, timestamp |-> timestamp,
   action |-> IF rootHash # hash THEN "edited" ELSE "created",
   rootHash |-> rootHash]

\* const merkleEntry = { hash, parentHash, timestamp, action, rootHash }
MerkleRow(hash, parentHash, timestamp, rootHash) ==
  [hash |-> hash, parentHash |-> parentHash, timestamp |-> timestamp,
   action |-> IF parentHash # Null THEN "edited" ELSE "created",
   rootHash |-> rootHash]

\* the words updateInvertedIndex indexes a document under
IndexWords(entryData) ==
  uniqueWords(tokenize(Field(entryData, "title") \o <<" ">>
                       \o Field(entryData, "description")))

\* faulty variant: a row with no rootHashes gets an empty array, the
\* entryHashes are not carried over
MigratedEmpty(row) ==
  IF "rootHashes" \in DOMAIN row THEN row
  ELSE [word |-> row.word, rootHashes |-> <<>>]

\* lines 208-217: a row in the old format (entryHashes, no rootHashes) gets
\* its entryHashes as rootHashes and loses the field entryHashes; a row with
\* neither gets an empty rootHashes
Migrated(row) ==
  IF "rootHashes" \in DOMAIN row THEN row
  ELSE IF "entryHashes" \in DOMAIN row
    THEN [word |-> row.word, rootHashes |-> row.entryHashes]
    ELSE [word |-> row.word, rootHashes |-> <<>>]

\* faulty variant: the root is pushed whether or not the row includes it
IndexRowPushing(existing, word, rootHash) ==
  LET invertedIndexEntry ==
        Migrated(IF existing # undefined THEN existing
                 ELSE [word |-> word, rootHashes |-> <<>>])
  IN [invertedIndexEntry EXCEPT !.rootHashes = Append(@, rootHash)]

\* faulty variant: the row put back holds the new root alone
IndexRowReplacing(existing, word, rootHash) ==
  [word |-> word, rootHashes |-> <<rootHash>>]

\* getRequest.onsuccess of updateInvertedIndex: the row put back for one word
IndexRowFor(existing, word, rootHash) ==
  LET invertedIndexEntry ==
        Migrated(IF existing # undefined THEN existing
                 ELSE [word |-> word, rootHashes |-> <<>>])
  IN IF rootHash \in Range(invertedIndexEntry.rootHashes)
       THEN invertedIndexEntry
       ELSE [invertedIndexEntry EXCEPT !.rootHashes = Append(@, rootHash)]

\* updateInvertedIndex for the first n of the words: one get and one put each
RECURSIVE updateInvertedIndex(_, _, _, _)
updateInvertedIndex(index, words, n, rootHash) ==
  IF n = 0 THEN index
  ELSE LET before == updateInvertedIndex(index, words, n - 1, rootHash)
       IN putWord(before, IndexRowFor(getWord(before, words[n]), words[n], rootHash))

(***************************************************************************)
(* searchEntries: what it computes from the rows it reads.                 *)
(***************************************************************************)
\* line 253, result.rootHashes.forEach: the requests of the tokens whose row
\* has no rootHashes, where the success handler throws a TypeError
Throwing(index, tokens) ==
  {i \in 1..Len(tokens) :
     LET result == getWord(index, tokens[i])
     IN result # undefined /\ "rootHashes" \notin DOMAIN result}

\* faulty variant: the roots posted under every token of the query
RootHashesOfAll(index, tokens) ==
  {h \in Hashes :
     \A i \in 1..Len(tokens) :
       LET result == getWord(index, tokens[i])
       IN result # undefined /\ h \in Range(result.rootHashes)}

\* tokens.forEach: every hash of every token's row goes into the Set rootHashes
RootHashesOf(index, tokens) ==
  UNION {LET result == getWord(index, tokens[i])
         IN IF result # undefined THEN Range(result.rootHashes) ELSE {}
         : i \in 1..Len(tokens)}

\* allMerkleEntries.find(e => e.hash === hash)?.timestamp
TimestampOf(allMerkleEntries, hash) ==
  LET i == CHOOSE i \in 1..Len(allMerkleEntries) : allMerkleEntries[i].hash = hash
  IN allMerkleEntries[i].timestamp

\* allMerkleEntries.forEach: latestVersions[root] is set for a root seen for the
\* first time and replaced only by a strictly greater timestamp.  The object is
\* its <<root, hash>> properties in insertion order.
RECURSIVE latestVersions(_, _, _)
latestVersions(allMerkleEntries, n, rootHashes) ==
  IF n = 0 THEN <<>>
  ELSE LET acc == latestVersions(allMerkleEntries, n - 1, rootHashes)
           entry == allMerkleEntries[n]
           root == entry.rootHash
           at == {i \in 1..Len(acc) : acc[i][1] = root}
       IN IF root \notin rootHashes THEN acc
          ELSE IF at = {} THEN Append(acc, <<root, entry.hash>>)
          ELSE LET i == CHOOSE i \in at : TRUE
               IN IF entry.timestamp > TimestampOf(allMerkleEntries, acc[i][2])
                    THEN [acc EXCEPT ![i] = <<root, entry.hash>>]
                    ELSE acc

\* Object.values(latestVersions), from the rows of the search transaction
LatestHashes(index, merkle, tokens) ==
  LET allMerkleEntries == getAll(merkle)
      latest == latestVersions(allMerkleEntries, Len(allMerkleEntries),
                               RootHashesOf(index, tokens))
  IN [i \in 1..Len(latest) |-> latest[i][2]]

\* entries.filter(e => e !== undefined)
RECURSIVE filterDefined(_)
filterDefined(rows) ==
  IF rows = <<>> THEN <<>>
  ELSE IF Head(rows) = undefined THEN filterDefined(Tail(rows))
  ELSE <<Head(rows)>> \o filterDefined(Tail(rows))

\* faulty variant: one missing Entry empties the result
FetchEntriesOrNone(entryStore, latestHashes) ==
  IF \E i \in 1..Len(latestHashes) : get(entryStore, latestHashes[i]) = undefined
    THEN <<>>
    ELSE sortDescending(
           [i \in 1..Len(latestHashes) |-> get(entryStore, latestHashes[i])])

\* Promise.all(latestHashes.map(getEntryByHash)), filtered and sorted most
\* recent first
FetchEntries(entryStore, latestHashes) ==
  sortDescending(filterDefined(
    [i \in 1..Len(latestHashes) |-> get(entryStore, latestHashes[i])]))

(***************************************************************************)
(* State.                                                                  *)
(***************************************************************************)
VARIABLES
  entries,        \* object store 'entries', key path 'hash'
  merkleTree,     \* object store 'merkleTree', key path 'hash'
  invertedIndex,  \* object store 'invertedIndex', key path 'word'
  now,            \* the clock new Date() reads
  calls,          \* the calls started so far
  proc            \* per caller: where its call stands, and the call's locals

tables == <<entries, merkleTree, invertedIndex>>
vars == <<entries, merkleTree, invertedIndex, now, calls, proc>>

\* the three stores as one value
DB == [entries |-> entries, merkleTree |-> merkleTree,
       invertedIndex |-> invertedIndex]

\* the stores as initDB creates them
EmptyDB == [entries |-> {}, merkleTree |-> {}, invertedIndex |-> {}]

\* A caller with no call yet.  given is the parentHash argument as passed;
\* pre, post and between record, for a search, the result an isolated search
\* would give on the rows of its transaction (pre) and on the rows at its
\* fetch (post), and the writes committed between the two.
Idle ==
  [pc |-> "idle", op |-> "none", entryData |-> <<>>, given |-> Null,
   parentHash |-> Null, hash |-> Null, timestamp |-> 0, rootHash |-> Null,
   lastMerkleEntry |-> undefined, merkleEntry |-> undefined,
   query |-> <<>>, latestHashes |-> <<>>, result |-> <<>>,
   outcome |-> "none", fault |-> "none",
   pre |-> <<>>, post |-> <<>>, between |-> "none"]

\* the kinds of failure: of the request of a read, of a request inside a
\* readwrite transaction, and of the transaction itself with no failed request
FaultKind(fault) ==
  CASE fault = "none" -> "none"
    [] fault = "read" -> "read"
    [] fault = "threw" -> "threw"
    [] fault = "commit" -> "abort"
    [] OTHER -> "request"

\* how the promise of a call ends, and what is left of the call: a failed
\* request fires error, which reaches request.onerror or transaction.onerror
\* (reject); a transaction that aborts with no failed request fires abort
\* only, which no handler takes, so the promise stays pending
Settle(self, fault) ==
  [Idle EXCEPT
     !.op = self.op, !.given = self.given, !.query = self.query,
     !.fault = FaultKind(fault),
     !.pc = IF fault = "commit" THEN "pending" ELSE "settled",
     !.outcome = CASE fault = "none" -> "resolved"
                   [] fault = "commit" -> "none"
                   [] OTHER -> "rejected"]

\* faulty variant: one transaction per store, so the writes made before the failure
\* stay
TransactionPerStore(before, working, fault) == working

\* db.transaction([...stores], 'readwrite'): the writes of one transaction
\* are committed together, and none of them is when the transaction aborts
Transaction(before, working, fault) ==
  IF fault = "none" THEN working ELSE before

\* a committed write, seen from a search between its transaction and its fetch
NoteWrite(procs, p, kind, fault) ==
  [q \in DOMAIN procs |->
    IF q # p /\ fault = "none" /\ procs[q].pc = "getEntryByHash"
      THEN [procs[q] EXCEPT
              !.between = IF @ = "none" THEN kind ELSE "several"]
      ELSE procs[q]]

(***************************************************************************)
(* saveEntry(entryData, parentHash = null)                                 *)
(***************************************************************************)
\* lines 49-57: the hash, the timestamp, rootHash = hash
SaveStart(entryData, parentHash, timestamp) ==
  [Idle EXCEPT
     !.pc = IF parentHash # Null THEN "getMerkleEntryByHash"
                                ELSE "getLastMerkleEntry",
     !.op = "save", !.entryData = entryData, !.given = parentHash,
     !.parentHash = parentHash, !.hash = hashEntry(entryData),
     !.timestamp = timestamp,
     !.rootHash = InitialRootHash(hashEntry(entryData))]

\* lines 59-64: the parent's root
WithParentRoot(self, merkle) ==
  [self EXCEPT !.pc = "transaction",
               !.rootHash = ParentRootHash(get(merkle, self.parentHash),
                                           self.parentHash)]

\* faulty variant: the default parent hands its root to the new record
WithLastEntryJoining(self, merkle) ==
  [self EXCEPT !.pc = "transaction",
               !.lastMerkleEntry = getLastMerkleEntry(merkle),
               !.parentHash = DefaultParentHash(getLastMerkleEntry(merkle)),
               !.rootHash = ParentRootHash(getLastMerkleEntry(merkle),
                                           self.hash)]

\* lines 67-70: the default parent
WithLastEntry(self, merkle) ==
  [self EXCEPT !.pc = "transaction",
               !.lastMerkleEntry = getLastMerkleEntry(merkle),
               !.parentHash = DefaultParentHash(getLastMerkleEntry(merkle))]

\* the requests of the save transaction, in the order they run: the entry put,
\* the merkle put, one index get per word, then one index put per word
SaveFaults == {"none", "entryPut", "merklePut", "indexGet", "indexPut", "commit"}

\* lines 81-97: the rows of the three stores inside the save transaction when
\* `fault` stops it (at the k-th word, for an index request)
SaveWorking(db, self, fault, k) ==
  LET words == IndexWords(self.entryData)
      done == CASE fault \in {"none", "commit"} -> Len(words)
                [] fault = "indexPut" -> k - 1
                [] OTHER -> 0
  IN [entries |->
        IF fault = "entryPut" THEN db.entries
        ELSE put(db.entries, EntryRow(self.hash, self.entryData,
                                      self.timestamp, self.rootHash)),
      merkleTree |->
        IF fault \in {"entryPut", "merklePut"} THEN db.merkleTree
        ELSE put(db.merkleTree, MerkleRow(self.hash, self.parentHash,
                                          self.timestamp, self.rootHash)),
      invertedIndex |-> updateInvertedIndex(db.invertedIndex, words, done,
                                            self.rootHash)]

SaveCall(p, entryData, parentHash, dt) ==
  /\ proc[p].pc \in {"idle", "settled"}
  /\ now + dt <= MaxClock
  /\ now' = now + dt
  /\ calls' = calls + 1
  /\ proc' = [proc EXCEPT ![p] = SaveStart(entryData, parentHash, now')]
  /\ UNCHANGED tables

\* getMerkleEntryByHash(parentHash), a readonly transaction of its own
SaveParentRoot(p, fault) ==
  /\ proc[p].pc = "getMerkleEntryByHash"
  /\ proc' = [proc EXCEPT ![p] =
       IF fault = "none" THEN WithParentRoot(@, merkleTree)
                         ELSE Settle(@, fault)]
  /\ UNCHANGED <<tables, now, calls>>

\* getLastMerkleEntry(), a readonly transaction of its own
SaveLastEntry(p, fault) ==
  /\ proc[p].pc = "getLastMerkleEntry"
  /\ proc' = [proc EXCEPT ![p] =
       IF fault = "none" THEN WithLastEntry(@, merkleTree)
                         ELSE Settle(@, fault)]
  /\ UNCHANGED <<tables, now, calls>>

\* lines 80-103: the readwrite transaction over the three stores
SaveTransaction(p, fault, k) ==
  /\ proc[p].pc = "transaction"
  /\ IF fault \in {"indexGet", "indexPut"}
       THEN k \in 1..Len(IndexWords(proc[p].entryData))
       ELSE k = 0
  /\ LET working == SaveWorking(DB, proc[p], fault, k)
     IN /\ entries' = Transaction(entries, working.entries, fault)
        /\ merkleTree' = Transaction(merkleTree, working.merkleTree, fault)
        /\ invertedIndex' = Transaction(invertedIndex, working.invertedIndex, fault)
  /\ proc' = [NoteWrite(proc, p, "save", fault) EXCEPT ![p] =
       IF fault = "none"
         THEN [Settle(@, fault) EXCEPT
                 !.entryData = proc[p].entryData,
                 !.merkleEntry = MerkleRow(proc[p].hash, proc[p].parentHash,
                                           proc[p].timestamp,
                                           proc[p].rootHash)]
         ELSE Settle(@, fault)]
  /\ UNCHANGED <<now, calls>>

\* saveEntry run from its call to its commit with no other call in between
\* and no failure
Saved(db, entryData, parentHash, timestamp) ==
  LET start == SaveStart(entryData, parentHash, timestamp)
      self == IF parentHash # Null THEN WithParentRoot(start, db.merkleTree)
                                   ELSE WithLastEntry(start, db.merkleTree)
  IN SaveWorking(db, self, "none", 0)

(***************************************************************************)
(* searchEntries(query)                                                    *)
(***************************************************************************)
\* the result of a search that reads the three stores in one transaction
IsolatedSearch(query) ==
  FetchEntries(entries, LatestHashes(invertedIndex, merkleTree, tokenize(query)))

\* an exception in the success handler of the i-th get aborts the search
\* transaction: the gets after it fail with AbortError and reach
\* request.onerror (reject); after the last get nothing is left to settle the
\* promise
ThrewAt(self, tokens, i) ==
  IF i < Len(tokens)
    THEN Settle(self, "threw")
    ELSE [Settle(self, "threw") EXCEPT !.pc = "pending", !.outcome = "none"]

\* faulty variant: the search goes on without a token
NoTokensIgnored(tokens) == FALSE

\* if (tokens.length === 0) return []
NoTokens(tokens) == Len(tokens) = 0

\* lines 235-275: no token, no transaction; else the readonly transaction
\* reads the index rows of the tokens and then all the merkle rows.  With no
\* version to fetch, Promise.all([]) resolves at once.
SearchCall(p, query, fault) ==
  /\ proc[p].pc \in {"idle", "settled"}
  /\ calls' = calls + 1
  /\ LET tokens == tokenize(query)
         latest == LatestHashes(invertedIndex, merkleTree, tokens)
         self == [Idle EXCEPT !.op = "search", !.query = query]
     IN proc' = [proc EXCEPT ![p] =
          IF NoTokens(tokens) THEN Settle(self, "none")
          ELSE IF fault # "none" THEN Settle(self, fault)
          ELSE IF Throwing(invertedIndex, tokens) # {}
            THEN ThrewAt(self, tokens,
                         CHOOSE i \in Throwing(invertedIndex, tokens) :
                           \A j \in Throwing(invertedIndex, tokens) : i <= j)
          ELSE IF latest = <<>> THEN Settle(self, "none")
          ELSE [self EXCEPT !.pc = "getEntryByHash", !.latestHashes = latest,
                            !.pre = IsolatedSearch(query)]]
  /\ UNCHANGED <<tables, now>>

\* lines 277-288: one getEntryByHash transaction per latest hash, all created
\* in the same callback; a rejected fetch rejects Promise.all, which has no
\* rejection handler
SearchFetch(p, fault) ==
  /\ proc[p].pc = "getEntryByHash"
  /\ proc' = [proc EXCEPT ![p] =
       IF fault = "none"
         THEN [Settle(@, fault) EXCEPT
                 !.result = FetchEntries(entries, proc[p].latestHashes),
                 !.pre = proc[p].pre, !.between = proc[p].between,
                 !.post = IsolatedSearch(proc[p].query)]
         ELSE [Settle(@, fault) EXCEPT !.pc = "pending", !.outcome = "none"]]
  /\ UNCHANGED <<tables, now, calls>>

(***************************************************************************)
(* hashEntry(entry), called by itself                                      *)
(***************************************************************************)
\* lines 43-46
HashCall(p, entry) ==
  /\ proc[p].pc \in {"idle", "settled"}
  /\ calls' = calls + 1
  /\ proc' = [proc EXCEPT ![p] =
       [Settle([Idle EXCEPT !.op = "hash"], "none") EXCEPT
          !.entryData = entry, !.hash = hashEntry(entry)]]
  /\ UNCHANGED <<tables, now>>

(***************************************************************************)
(* getEntryByHash(hash), called by itself                                  *)
(***************************************************************************)
\* lines 107-117: one readonly transaction over entries, one get
GetCall(p, hash, fault) ==
  /\ proc[p].pc \in {"idle", "settled"}
  /\ calls' = calls + 1
  /\ proc' = [proc EXCEPT ![p] =
       [Settle([Idle EXCEPT !.op = "get"], fault) EXCEPT
          !.hash = hash,
          !.result = IF fault = "none" THEN get(entries, hash) ELSE <<>>]]
  /\ UNCHANGED <<tables, now>>

(***************************************************************************)
(* getMerkleTree()                                                         *)
(***************************************************************************)
GetMerkleTreeCall(p, fault) ==
  /\ proc[p].pc \in {"idle", "settled"}
  /\ calls' = calls + 1
  /\ proc' = [proc EXCEPT ![p] =
       [Settle([Idle EXCEPT !.op = "getMerkleTree"], fault) EXCEPT
          !.result = IF fault = "none" THEN getMerkleTree(merkleTree)
                                       ELSE <<>>]]
  /\ UNCHANGED <<tables, now>>

(***************************************************************************)
(* deleteEntry(hash) and clearAllData()                                    *)
(***************************************************************************)
\* the requests of the delete transaction, and its commit
DeleteFaults == {"none", "entryDelete", "merkleDelete", "commit"}

\* faulty variant: the delete removes the Entry and leaves the version record
DeleteWorkingEntryOnly(db, hash, fault) ==
  [entries |->
     IF fault = "entryDelete" THEN db.entries
     ELSE delete(db.entries, hash),
   merkleTree |-> db.merkleTree]

\* lines 311-312: the rows of the two stores inside the delete transaction
\* when `fault` stops it
DeleteWorking(db, hash, fault) ==
  [entries |->
     IF fault = "entryDelete" THEN db.entries
     ELSE delete(db.entries, hash),
   merkleTree |->
     IF fault \in {"entryDelete", "merkleDelete"} THEN db.merkleTree
     ELSE delete(db.merkleTree, hash)]

\* lines 305-317: one readwrite transaction over entries and merkleTree
DeleteCall(p, hash, fault) ==
  /\ proc[p].pc \in {"idle", "settled"}
  /\ calls' = calls + 1
  /\ LET working == DeleteWorking(DB, hash, fault)
     IN /\ entries' = Transaction(entries, working.entries, fault)
        /\ merkleTree' = Transaction(merkleTree, working.merkleTree, fault)
  /\ proc' = [NoteWrite(proc, p, "delete", fault) EXCEPT ![p] =
       [Settle([Idle EXCEPT !.op = "delete"], fault) EXCEPT !.hash = hash]]
  /\ UNCHANGED <<invertedIndex, now>>

\* the requests of the clear transaction, and its commit
ClearFaults == {"none", "entriesClear", "merkleClear", "indexClear", "commit"}

\* objectStore.clear()
clear(store) == {}

\* lines 329-331: the rows of the three stores inside the clear transaction
\* when `fault` stops it
ClearWorking(db, fault) ==
  [entries |->
     IF fault = "entriesClear" THEN db.entries ELSE clear(db.entries),
   merkleTree |->
     IF fault \in {"entriesClear", "merkleClear"} THEN db.merkleTree
     ELSE clear(db.merkleTree),
   invertedIndex |->
     IF fault \in {"entriesClear", "merkleClear", "indexClear"}
       THEN db.invertedIndex
       ELSE clear(db.invertedIndex)]

\* lines 320-336: one readwrite transaction over the three stores
ClearCall(p, fault) ==
  /\ proc[p].pc \in {"idle", "settled"}
  /\ calls' = calls + 1
  /\ LET working == ClearWorking(DB, fault)
     IN /\ entries' = Transaction(entries, working.entries, fault)
        /\ merkleTree' = Transaction(merkleTree, working.merkleTree, fault)
        /\ invertedIndex' =
             Transaction(invertedIndex, working.invertedIndex, fault)
  /\ proc' = [NoteWrite(proc, p, "clear", fault) EXCEPT ![p] =
       Settle([Idle EXCEPT !.op = "clear"], fault)]
  /\ UNCHANGED now

(***************************************************************************)
(* The specifications.                                                     *)
(***************************************************************************)
\* The database is persistent: a session finds the rows earlier sessions
\* left.  TwoRoots is what two overlapping first saves leave (both read an
\* empty merkleTree before either commits), DocA1 and DocB in the same
\* millisecond.
TwoRoots ==
  LET a == WithLastEntry(SaveStart(DocA1, Null, 1), {})
      b == WithLastEntry(SaveStart(DocB, Null, 1), {})
  IN SaveWorking(SaveWorking(EmptyDB, a, "none", 0), b, "none", 0)

StoredDBs == {EmptyDB, TwoRoots}

\* an index row as the older storage module wrote it: entryHashes, no
\* rootHashes
OldFormat(row) == [word |-> row.word, entryHashes |-> row.rootHashes]

\* stores whose index holds rows in the old format: the rows of both words
\* of TwoRoots, or the row of the word a only
OldIndexDBs ==
  {[TwoRoots EXCEPT !.invertedIndex = {OldFormat(row) : row \in @}],
   [TwoRoots EXCEPT !.invertedIndex =
      {IF row.word = <<"a">> THEN OldFormat(row) ELSE row : row \in @}]}

Init ==
  /\ \E db \in StoredDBs :
       /\ entries = db.entries
       /\ merkleTree = db.merkleTree
       /\ invertedIndex = db.invertedIndex
  /\ now = 1
  /\ calls = 0
  /\ proc = [p \in Procs |-> Idle]

ReadFaults == {"none", "read"}

\* a caller starts a call
Call(p) ==
  \/ \E d \in Docs, parent \in {Null} \cup Hashes, dt \in {0, 1} :
       SaveCall(p, d, parent, dt)
  \/ \E q \in Queries, fault \in ReadFaults : SearchCall(p, q, fault)
  \/ \E h \in Hashes, fault \in DeleteFaults : DeleteCall(p, h, fault)
  \/ \E fault \in ClearFaults : ClearCall(p, fault)

\* a call goes on after an await
Step(p) ==
  \/ \E fault \in ReadFaults : SaveParentRoot(p, fault)
  \/ \E fault \in ReadFaults : SaveLastEntry(p, fault)
  \/ \E fault \in SaveFaults, k \in 0..2 : SaveTransaction(p, fault, k)
  \/ \E fault \in ReadFaults : SearchFetch(p, fault)

\* two callers whose calls overlap
Next == \E p \in Procs : (calls < MaxCalls /\ Call(p)) \/ Step(p)

Spec == Init /\ [][Next]_vars

\* a caller starts a read of one row
Read(p) ==
  \/ \E h \in Hashes, fault \in ReadFaults : GetCall(p, h, fault)
  \/ \E fault \in ReadFaults : GetMerkleTreeCall(p, fault)

\* one caller, each call awaited before the next
SeqNext == (calls < MaxOps /\ (Call(1) \/ Read(1))) \/ Step(1)

SeqSpec == Init /\ [][SeqNext]_vars

(***************************************************************************)
(* Properties.                                                             *)
(***************************************************************************)
\* the step in which the save of caller p commits
SaveCommits(p) ==
  /\ proc[p].pc = "transaction"
  /\ proc'[p].pc = "settled"
  /\ proc'[p].outcome = "resolved"

\* a save of caller p has resolved
SaveResolved(p) ==
  /\ proc[p].op = "save"
  /\ proc[p].pc = "settled"
  /\ proc[p].outcome = "resolved"

\* a search of caller p has resolved
SearchResolved(p) ==
  /\ proc[p].op = "search"
  /\ proc[p].pc = "settled"
  /\ proc[p].outcome = "resolved"

\* the records of the greatest timestamp
MostRecent(merkle) ==
  {m \in merkle : \A o \in merkle : o.timestamp <= m.timestamp}

\* C1 (as claimed): chain integrity.  Every version record whose parentHash
\* names an existing version record has the rootHash of that record.
C1_ChainIntegrity ==
  \A r \in merkleTree :
    \A parent \in merkleTree :
      parent.hash = r.parentHash => r.rootHash = parent.rootHash

C3_RootOfRoot ==
  \A r \in merkleTree : r.parentHash = Null => r.rootHash = r.hash

\* C3 witness: a save has committed a version record with no parent
C3_Witness ==
  \E p \in Procs :
    /\ SaveResolved(p)
    /\ proc[p].merkleEntry.parentHash = Null
    /\ proc[p].merkleEntry \in merkleTree

\* the store holds exactly a document saved with no parent and a version of
\* it saved with an explicit parent: records r0 and r1 of one root, the only
\* root the index has postings of
TwoVersions(r0, r1) ==
  /\ merkleTree = {r0, r1}
  /\ r0.hash # r1.hash
  /\ r0.parentHash = Null
  /\ r1.parentHash = r0.hash
  /\ r1.rootHash = r0.hash
  /\ {e.hash : e \in entries} = {r0.hash, r1.hash}
  /\ \A row \in invertedIndex : Range(row.rootHashes) = {r0.hash}

\* C4 (as claimed): latest-version resolution.  After a document is saved
\* into an empty store and a second document is saved with the first as its
\* explicit parent, a search for a token of either returns exactly the Entry
\* of the second.
C4_LatestVersion ==
  \A p \in Procs : \A r0, r1 \in merkleTree :
    (/\ SearchResolved(p)
     /\ TwoVersions(r0, r1)
     /\ \E e \in entries :
          Range(tokenize(proc[p].query)) \cap Range(IndexWords(e.content)) # {})
    => proc[p].result = <<get(entries, r1.hash)>>

\* C5: atomicity of save.  A save whose write transaction fails leaves the
\* three tables as they were, and is rejected when a request of the
\* transaction failed; a save that commits has written its Entry, its version
\* record and a posting of its root under every word of the document.
C5_SaveAtomic ==
  [][\A p \in Procs :
       (proc[p].pc = "transaction" /\ proc'[p].pc # "transaction")
       => IF proc'[p].outcome = "resolved"
            THEN /\ get(entries', proc[p].hash) =
                      EntryRow(proc[p].hash, proc[p].entryData,
                               proc[p].timestamp, proc[p].rootHash)
                 /\ get(merkleTree', proc[p].hash) = proc'[p].merkleEntry
                 /\ \A w \in Range(IndexWords(proc[p].entryData)) :
                      /\ getWord(invertedIndex', w) # undefined
                      /\ proc[p].rootHash
                           \in Range(getWord(invertedIndex', w).rootHashes)
            ELSE /\ tables' = tables
                 /\ proc'[p].fault = "request"
                      => proc'[p].outcome = "rejected"]_vars

\* C5 witness: a save was rejected for a request of its write transaction
C5_Witness ==
  \E p \in Procs :
    /\ proc[p].op = "save"
    /\ proc[p].pc = "settled"
    /\ proc[p].fault = "request"
    /\ proc[p].outcome = "rejected"

\* C6 (as claimed): isolation of search.  A search that overlaps a save
\* returns what it would return on the store before the save or on the store
\* after it.
C6_SearchIsolation ==
  \A p \in Procs :
    (SearchResolved(p) /\ proc[p].between = "save")
    => proc[p].result \in {proc[p].pre, proc[p].post}

\* C7: idempotent save.  Saving a document whose Entry is stored resolves
\* with the hash of that Entry, leaves the number of Entries as it was and
\* leaves exactly one Entry of that hash.
C7_IdempotentSave ==
  [][\A p \in Procs :
       (SaveCommits(p) /\ \E e \in entries : e.content = proc[p].entryData)
       => /\ \A e \in entries :
               e.content = proc[p].entryData
               => e.hash = proc'[p].merkleEntry.hash
          /\ Cardinality(entries') = Cardinality(entries)
          /\ Cardinality({e \in entries' :
                            e.hash = proc'[p].merkleEntry.hash}) = 1]_vars

\* C7 witness: a document was saved a second time with no parent, on top of
\* its own version record
C7_Witness ==
  \E p \in Procs :
    /\ SaveResolved(p)
    /\ proc[p].given = Null
    /\ proc[p].merkleEntry.parentHash = proc[p].merkleEntry.hash
    /\ Cardinality({e \in entries : e.hash = proc[p].merkleEntry.hash}) = 1

\* C8 (as claimed): Entry immutability.  A save leaves every stored Entry as
\* it is: same hash, content, timestamp and rootHash.
C8_EntryImmutable ==
  [][\A p \in Procs : SaveCommits(p) => entries \subseteq entries']_vars

\* C9 (as claimed): the version chain is append-only.  A save leaves every
\* stored version record as it is.
C9_AppendOnly ==
  [][\A p \in Procs : SaveCommits(p) => merkleTree \subseteq merkleTree']_vars

\* a version record of the greatest timestamp among those of a root
LatestOfRoot(merkle, rootHash) ==
  {m \in merkle :
     /\ m.rootHash = rootHash
     /\ \A o \in merkle : o.rootHash = rootHash => o.timestamp <= m.timestamp}

\* C10: OR semantics of search.  For every token of the query and every root
\* posted under it that has a version record, the result holds the Entry of a
\* latest version of that root.
C10_SearchOr ==
  \A p \in Procs :
    SearchResolved(p)
    => \A t \in Range(tokenize(proc[p].query)) :
         \A rootHash \in RootHashesOf(invertedIndex, <<t>>) :
           LatestOfRoot(merkleTree, rootHash) # {}
           => \E i \in 1..Len(proc[p].result) :
                \E m \in LatestOfRoot(merkleTree, rootHash) :
                  proc[p].result[i] = get(entries, m.hash)

\* C10 witness: a search of two tokens has returned two Entries, each posted
\* under one of the tokens only
C10_Witness ==
  \E p \in Procs :
    /\ SearchResolved(p)
    /\ Len(tokenize(proc[p].query)) = 2
    /\ Len(proc[p].result) = 2
    /\ \A i \in 1..2 :
         \E t \in Range(tokenize(proc[p].query)) :
           proc[p].result[i].rootHash \notin RootHashesOf(invertedIndex, <<t>>)

\* C11 (as claimed): search results are deduplicated by logical document.
\* No result of a search holds two Entries of one rootHash or one Entry hash
\* twice.
C11_Deduplicated ==
  \A p \in Procs :
    SearchResolved(p)
    => \A i, j \in 1..Len(proc[p].result) :
         i # j => /\ proc[p].result[i].rootHash # proc[p].result[j].rootHash
                  /\ proc[p].result[i].hash # proc[p].result[j].hash

\* C12: search results are ordered most recent first.  In every result of a
\* search each Entry's timestamp is greater than or equal to the timestamp of
\* the Entry that follows it.
C12_MostRecentFirst ==
  \A p \in Procs :
    SearchResolved(p)
    => \A i \in 1..(Len(proc[p].result) - 1) :
         proc[p].result[i].timestamp >= proc[p].result[i + 1].timestamp

\* C12 witness: a search has returned two Entries of different timestamps
C12_Witness ==
  \E p \in Procs :
    /\ SearchResolved(p)
    /\ Len(proc[p].result) = 2
    /\ proc[p].result[1].timestamp > proc[p].result[2].timestamp

\* caller p starts a search
SearchStarts(p) ==
  /\ calls' = calls + 1
  /\ proc[p].pc \in {"idle", "settled"}
  /\ proc'[p].op = "search"
  /\ \A q \in Procs \ {p} : proc'[q] = proc[q]

\* C13: empty-query law.  A search whose query yields no token resolves at
\* once with the empty sequence, whatever the store holds and whether or not
\* a read of the store would fail, and leaves the three tables as they are.
C13_EmptyQuery ==
  [][\A p \in Procs :
       (SearchStarts(p) /\ tokenize(proc'[p].query) = <<>>)
       => /\ proc'[p].pc = "settled"
          /\ proc'[p].outcome = "resolved"
          /\ proc'[p].result = <<>>
          /\ tables' = tables]_vars

\* C13 witness: a search for whitespace and punctuation has resolved on a
\* store that holds documents
C13_Witness ==
  \E p \in Procs :
    /\ SearchResolved(p)
    /\ proc[p].query = <<" ", "!">>
    /\ proc[p].result = <<>>
    /\ entries # {}
    /\ invertedIndex # {}

\* C14: round trip.  After a save of document D has resolved with hash h,
\* getEntryByHash(h) resolves with an Entry whose content is D.
C14_RoundTrip ==
  [][\A p \in Procs :
       (/\ SaveResolved(p)
        /\ calls' = calls + 1
        /\ proc'[p].op = "get"
        /\ proc'[p].hash = proc[p].merkleEntry.hash
        /\ proc'[p].outcome = "resolved")
       => /\ proc'[p].result # undefined
          /\ proc'[p].result.hash = proc[p].merkleEntry.hash
          /\ proc'[p].result.content = proc[p].entryData]_vars

\* C14 witness: getEntryByHash has returned the Entry of DocA2, which no
\* stored database holds before it is saved
C14_Witness ==
  \E p \in Procs :
    /\ proc[p].op = "get"
    /\ proc[p].pc = "settled"
    /\ proc[p].outcome = "resolved"
    /\ proc[p].result # undefined
    /\ proc[p].result.content = DocA2
    /\ proc[p].result.hash = hashEntry(DocA2)

\* hashEntry alone, on the same object again or on another
HashNext == \E p \in Procs, entry \in Objects : calls < MaxOps /\ HashCall(p, entry)

HashSpec == Init /\ [][HashNext]_vars

\* two objects of the same field values
SameFields(d, e) == Range(d) = Range(e)

\* C15 (as claimed): hash determinism over logical content.  Two objects of
\* the same field values get the same digest, in whatever order the fields
\* were supplied, and the same object gets the same digest on every call.
C15_HashOfContent ==
  \A p, q \in Procs :
    (/\ proc[p].op = "hash" /\ proc[q].op = "hash"
     /\ SameFields(proc[p].entryData, proc[q].entryData))
    => proc[p].hash = proc[q].hash

\* caller p starts a delete; a clear
DeleteStarts(p) ==
  /\ calls' = calls + 1
  /\ proc[p].pc \in {"idle", "settled"}
  /\ proc'[p].op = "delete"

ClearStarts(p) ==
  /\ calls' = calls + 1
  /\ proc[p].pc \in {"idle", "settled"}
  /\ proc'[p].op = "clear"

\* C16: frame of delete.  deleteEntry(h) that resolves has removed the Entry
\* of key h and the version record of key h and nothing else; one that does
\* not resolve has removed neither; in both cases every other Entry, every
\* other version record and the whole index are as they were.
C16_DeleteFrame ==
  [][\A p \in Procs :
       DeleteStarts(p)
       => /\ invertedIndex' = invertedIndex
          /\ IF proc'[p].outcome = "resolved"
               THEN /\ entries' = {e \in entries : e.hash # proc'[p].hash}
                    /\ merkleTree' =
                         {m \in merkleTree : m.hash # proc'[p].hash}
               ELSE /\ entries' = entries
                    /\ merkleTree' = merkleTree]_vars

\* C16 witness: a delete has removed the first version of a document and
\* left the second version, of the same root, and its postings
C16_Witness ==
  \E p \in Procs :
    /\ proc[p].op = "delete"
    /\ proc[p].outcome = "resolved"
    /\ \A e \in entries : e.hash # proc[p].hash
    /\ \A m \in merkleTree : m.hash # proc[p].hash
    /\ \E m \in merkleTree : m.rootHash = proc[p].hash
    /\ \E row \in invertedIndex : proc[p].hash \in Range(row.rootHashes)

\* C17: clear is atomic.  clearAllData that resolves leaves the three tables
\* empty; one that does not resolve leaves the three tables as they were.
C17_ClearAtomic ==
  [][\A p \in Procs :
       ClearStarts(p)
       => IF proc'[p].outcome = "resolved"
            THEN entries' = {} /\ merkleTree' = {} /\ invertedIndex' = {}
            ELSE tables' = tables]_vars

\* C17 witness: a clear that failed at one of its requests was rejected on a
\* store that holds documents, and none of the three tables was emptied
C17_Witness ==
  \E p \in Procs :
    /\ proc[p].op = "clear"
    /\ proc[p].fault = "request"
    /\ proc[p].outcome = "rejected"
    /\ entries # {} /\ merkleTree # {} /\ invertedIndex # {}

\* the awaits a call can stand at: each has a continuation that runs when the
\* awaited request succeeds or fails (the guards of the steps of Step)
Awaits == {"getMerkleEntryByHash", "getLastMerkleEntry", "transaction",
           "getEntryByHash"}

\* C18 (as claimed): every call settles.  A call that has neither resolved
\* nor rejected stands at an await whose continuation will run: no call is
\* left pending with nothing that could settle it.
C18_EveryCallSettles ==
  \A p \in Procs :
    proc[p].pc \in {"idle", "settled"} \/ proc[p].pc \in Awaits

\* saves and searches of one caller on a store whose index holds rows in the
\* old format
OldIndexInit ==
  /\ \E db \in OldIndexDBs :
       /\ entries = db.entries
       /\ merkleTree = db.merkleTree
       /\ invertedIndex = db.invertedIndex
  /\ now = 1
  /\ calls = 0
  /\ proc = [p \in Procs |-> Idle]

OldIndexNext ==
  \/ /\ calls < MaxOps
     /\ \/ \E d \in Docs, parent \in {Null} \cup Hashes, dt \in {0, 1} :
             SaveCall(1, d, parent, dt)
        \/ \E q \in Queries, fault \in ReadFaults : SearchCall(1, q, fault)
  \/ Step(1)

OldIndexSpec == OldIndexInit /\ [][OldIndexNext]_vars

\* the postings of an index row, in either format
PostingsOf(row) ==
  IF row = undefined THEN {}
  ELSE IF "rootHashes" \in DOMAIN row THEN Range(row.rootHashes)
  ELSE Range(row.entryHashes)

\* a sequence with no element twice
NoDuplicate(seq) == Cardinality(Range(seq)) = Len(seq)

\* C19: index migration on write.  After a save has committed, the row of
\* every word of the document has a field rootHashes and no field
\* entryHashes, and its rootHashes are the postings the row had before the
\* save, in either format, and the root of the save, none of them twice; the
\* rows of the other words are as they were.
C19_MigratesOnWrite ==
  [][\A p \in Procs :
       SaveCommits(p)
       => /\ \A w \in Range(IndexWords(proc[p].entryData)) :
               LET old == getWord(invertedIndex, w)
                   new == getWord(invertedIndex', w)
               IN /\ new # undefined
                  /\ DOMAIN new = {"word", "rootHashes"}
                  /\ Range(new.rootHashes) =
                       PostingsOf(old) \cup {proc[p].rootHash}
                  /\ NoDuplicate(new.rootHashes)
          /\ \A row \in invertedIndex :
               row.word \notin Range(IndexWords(proc[p].entryData))
               => row \in invertedIndex']_vars

\* C19 witness: the row of the word a, in the old format in every stored
\* database, is in the new format with its old posting and the roots of two
\* saves
C19_Witness ==
  \E row \in invertedIndex :
    /\ row.word = <<"a">>
    /\ DOMAIN row = {"word", "rootHashes"}
    /\ Len(row.rootHashes) = 3
    /\ hashEntry(DocA1) \in Range(row.rootHashes)

\* C20 (as claimed): index migration on read.  A search none of whose
\* requests fails resolves, also when a token matches an index row in the
\* old format, and then holds an Entry for every posting of such a row that
\* has a version record.
C20_MigratesOnRead ==
  \A p \in Procs :
    (proc[p].op = "search" /\ proc[p].fault \notin {"read"})
    => /\ proc[p].pc \in Awaits \/ SearchResolved(p)
       /\ SearchResolved(p)
            => \A t \in Range(tokenize(proc[p].query)) :
                 \A h \in PostingsOf(getWord(invertedIndex, t)) :
                   LatestOfRoot(merkleTree, h) # {}
                   => \E i \in 1..Len(proc[p].result) :
                        proc[p].result[i].rootHash = h

\* two saves without an explicit parent: caller p is about to commit, caller
\* q has committed, both found the version record P as the most recent one,
\* they save different documents and the record q wrote is in the store
DefaultParentRace(p, q) ==
  /\ p # q
  /\ SaveCommits(p)
  /\ SaveResolved(q)
  /\ proc[p].given = Null
  /\ proc[q].given = Null
  /\ proc[p].lastMerkleEntry # undefined
  /\ proc[q].merkleEntry.parentHash = proc[p].lastMerkleEntry.hash
  /\ proc[q].merkleEntry.hash # proc[p].hash
  /\ proc[q].merkleEntry \in merkleTree

SaveFinished(db, self) ==
  LET read == IF self.pc = "getMerkleEntryByHash"
                THEN WithParentRoot(self, db.merkleTree)
              ELSE IF self.pc = "getLastMerkleEntry"
                THEN WithLastEntry(self, db.merkleTree)
              ELSE self
  IN SaveWorking(db, read, "none", 0)

\* C22 (as claimed): re-saving identical content is safe to race.  When the
\* first of two concurrent saves of the same document commits, no other call
\* having been made, the other save goes on to leave the same version record
\* for that hash (same parentHash, rootHash and action) and the same index
\* postings as the first save alone has produced.
C22_RacingResaveIsSafe ==
  [][\A p, q \in Procs :
       ( /\ p # q
         /\ calls = 2
         /\ SaveCommits(p)
         /\ proc[q].op = "save"
         /\ proc[q].pc \in {"getMerkleEntryByHash", "getLastMerkleEntry",
                            "transaction"}
         /\ proc[q].entryData = proc[p].entryData
         /\ proc[q].given = proc[p].given )
       => LET single == get(merkleTree', proc[p].hash)
              both == SaveFinished(DB', proc[q])
              after == get(both.merkleTree, proc[p].hash)
          IN /\ after.parentHash = single.parentHash
             /\ after.rootHash = single.rootHash
             /\ after.action = single.action
             /\ both.invertedIndex = invertedIndex']_vars

\* C23 (as claimed): a resolved getMerkleTree holds every version record of
\* the store, each exactly once, in the order of non-decreasing timestamp.
C23_VersionChain ==
  \A p \in Procs :
    (proc[p].op = "getMerkleTree" /\ proc[p].outcome = "resolved")
    => LET chain == proc[p].result
       IN /\ Range(chain) = merkleTree
          /\ Len(chain) = Cardinality(merkleTree)
          /\ \A i, j \in 1..Len(chain) :
               i < j => chain[i].timestamp <= chain[j].timestamp

\* C23 witness: a resolved getMerkleTree holds three records, and in front
\* of a record another one of a greater hash and of a smaller timestamp
C23_Witness ==
  \E p \in Procs :
    /\ proc[p].op = "getMerkleTree"
    /\ proc[p].outcome = "resolved"
    /\ Len(proc[p].result) = 3
    /\ \E i \in 1..2 :
         /\ proc[p].result[i].hash > proc[p].result[i + 1].hash
         /\ proc[p].result[i].timestamp < proc[p].result[i + 1].timestamp

\* C24: the index only grows under save and delete.  In every step that is
\* not the start of a clear, every index row stays a row of its word, and
\* every root hash of its postings stays among the postings of that word.
C24_IndexOnlyGrows ==
  [][(\A p \in Procs : ~ClearStarts(p))
     => \A row \in invertedIndex :
          \E after \in invertedIndex' :
            /\ after.word = row.word
            /\ Range(row.rootHashes) \subseteq Range(after.rootHashes)]_vars

\* C24 witness: a delete has resolved, the root it deleted has no version
\* record and is still a posting of a row that a save has extended by a
\* second root
C24_Witness ==
  \E p \in Procs :
    /\ proc[p].op = "delete"
    /\ proc[p].outcome = "resolved"
    /\ get(merkleTree, proc[p].hash) = undefined
    /\ \E row \in invertedIndex :
         /\ proc[p].hash \in Range(row.rootHashes)
         /\ Len(row.rootHashes) >= 2

\* C25 (as claimed): tie-break of the latest version.  When a root and the
\* version saved after it with the root as explicit parent have the same
\* timestamp, a search matching the root resolves the version saved last,
\* whichever of the two hashes is the smaller.
C25_TieTakesLastAppended ==
  \A p \in Procs : \A r0, r1 \in merkleTree :
    (/\ SearchResolved(p)
     /\ TwoVersions(r0, r1)
     /\ r0.timestamp = r1.timestamp
     /\ r0.hash \in RootHashesOf(invertedIndex, tokenize(proc[p].query)))
    => /\ Len(proc[p].result) = 1
       /\ proc[p].result[1].hash = r1.hash

\* the action of a version record tells whether it has a parent
ActionTag(r) ==
  /\ r.action \in {"created", "edited"}
  /\ r.action = "created" <=> r.parentHash = Null
  /\ r.action = "edited" <=> r.parentHash # Null

RootIdentity(merkle) ==
  \A r \in merkle :
    /\ \E root \in merkle :
         /\ root.hash = r.rootHash
         /\ root.action = "created"
         /\ root.parentHash = Null
    /\ Cardinality({o \in merkle : /\ o.rootHash = r.rootHash
                                    /\ o.parentHash = Null}) = 1

\* C27 (as claimed): root identity, by induction over the saves.  A save
\* that commits on a store with root identity leaves a store with root
\* identity.
C27_RootIdentity ==
  [][\A p \in Procs :
       (SaveCommits(p) /\ RootIdentity(merkleTree))
       => RootIdentity(merkleTree')]_vars

\* C28: dangling-parent fallback.  A save with an explicit parentHash P of
\* which the merkleTree store has no record goes on from the lookup with
\* rootHash = P and parentHash = P when the lookup request does not fail,
\* and when no request of its transaction fails it resolves, having put its
\* Entry and its version record with rootHash = P and parentHash = P and
\* added P to the postings of its words; every other row is as it was.
C28_DanglingParent ==
  [][\A p \in Procs :
       LET P == proc[p].given
           words == IndexWords(proc[p].entryData)
       IN ( /\ proc[p].op = "save"
            /\ P # Null
            /\ get(merkleTree, P) = undefined
            /\ proc'[p] # proc[p]
            /\ proc'[p].fault = "none" )
          => /\ proc[p].pc = "getMerkleEntryByHash"
                => /\ proc'[p].pc = "transaction"
                   /\ proc'[p].rootHash = P
                   /\ proc'[p].parentHash = P
                   /\ UNCHANGED tables
             /\ proc[p].pc = "transaction"
                => /\ proc'[p].outcome = "resolved"
                   /\ get(merkleTree', proc[p].hash) =
                        [hash |-> proc[p].hash, parentHash |-> P,
                         timestamp |-> proc[p].timestamp,
                         action |-> "edited", rootHash |-> P]
                   /\ get(entries', proc[p].hash) =
                        [hash |-> proc[p].hash, content |-> proc[p].entryData,
                         timestamp |-> proc[p].timestamp, rootHash |-> P]
                   /\ \A r \in merkleTree :
                        r.hash # proc[p].hash => r \in merkleTree'
                   /\ \A e \in entries :
                        e.hash # proc[p].hash => e \in entries'
                   /\ Cardinality(merkleTree' \ merkleTree) <= 1
                   /\ Cardinality(entries' \ entries) <= 1
                   /\ \A row \in invertedIndex' :
                        IF row.word \in Range(words)
                          THEN Range(row.rootHashes) =
                                 PostingsOf(getWord(invertedIndex, row.word))
                                 \cup {P}
                          ELSE row \in invertedIndex
                   /\ {row.word : row \in invertedIndex'} =
                        {row.word : row \in invertedIndex} \cup Range(words)]_vars

\* C28 witness: a save with an explicit parent has resolved, its version
\* record is in the store with the parent as rootHash and as parentHash, and
\* the store has no record of the parent
C28_Witness ==
  \E p \in Procs :
    /\ SaveResolved(p)
    /\ proc[p].given # Null
    /\ proc[p].merkleEntry \in merkleTree
    /\ proc[p].merkleEntry.rootHash = proc[p].given
    /\ proc[p].merkleEntry.parentHash = proc[p].given
    /\ get(merkleTree, proc[p].given) = undefined

\* C29: missing-entry tolerance in search.  A search whose fetches do not
\* fail resolves, and its result holds, once each, the Entry of every latest
\* hash that has an Entry as the search fetches, and nothing for a latest
\* hash that has none.
C29_MissingEntryTolerated ==
  [][\A p \in Procs :
       ( /\ proc[p].pc = "getEntryByHash"
         /\ proc'[p].pc # "getEntryByHash"
         /\ proc'[p].fault = "none" )
       => LET found == {h \in Range(proc[p].latestHashes) :
                          get(entries, h) # undefined}
          IN /\ proc'[p].outcome = "resolved"
             /\ Range(proc'[p].result) = {get(entries, h) : h \in found}
             /\ Len(proc'[p].result) = Cardinality(found)]_vars

\* C29 witness: a search has resolved with one Entry, a delete having
\* committed between its index read, when two latest hashes had an Entry,
\* and its fetches
C29_Witness ==
  \E p \in Procs :
    /\ SearchResolved(p)
    /\ proc[p].between = "delete"
    /\ Len(proc[p].pre) = 2
    /\ Len(proc[p].result) = 1

\* C30: posting sets have set semantics.  In every reachable state no index
\* row lists a root hash twice.
C30_PostingSets ==
  \A row \in invertedIndex : NoDuplicate(row.rootHashes)

\* C30 witness: two saves of documents that share a word have committed
\* under the same root, and the row of the word lists that root
C30_Witness ==
  \E p, q \in Procs :
    /\ p # q
    /\ SaveResolved(p) /\ SaveResolved(q)
    /\ proc[p].merkleEntry.rootHash = proc[q].merkleEntry.rootHash
    /\ \E row \in invertedIndex :
         /\ row.word \in Range(IndexWords(proc[p].entryData))
         /\ row.word \in Range(IndexWords(proc[q].entryData))
         /\ proc[p].merkleEntry.rootHash \in Range(row.rootHashes)

(***************************************************************************)
(* initDB()                                                                *)
(***************************************************************************)
\* indexedDB.open(DB_NAME, 2)
CurrentVersion == 2

\* the object stores initDB creates
StoreNames == {"entries", "merkleTree", "invertedIndex"}

\* a stored database: its version (0 when there is none) and its object
\* stores, a function from store names to rows
Database(version, stores) == [version |-> version, stores |-> stores]

\* the rows a store of an older database can hold: none, or those of TwoRoots
\* (for a store of another name, one row)
RowsOf(name) ==
  CASE name = "entries" -> {{}, TwoRoots.entries}
    [] name = "merkleTree" -> {{}, TwoRoots.merkleTree}
    [] name = "invertedIndex" ->
         {{}, TwoRoots.invertedIndex,
          {OldFormat(row) : row \in TwoRoots.invertedIndex}}
    [] OTHER -> {{}, {[id |-> 1]}}

\* the databases initDB can find: none; one of a lower version with any of
\* the three stores and of a store the current schema does not have; one of
\* the current version; one of a higher version
Databases ==
  {Database(0, <<>>)}
  \cup UNION {{Database(1, stores) :
                 stores \in {f \in [names -> UNION {RowsOf(n) : n \in names}] :
                               \A n \in names : f[n] \in RowsOf(n)}} :
              names \in SUBSET (StoreNames \cup {"affirmations"})}
  \cup {Database(CurrentVersion,
                 [n \in StoreNames |->
                    CASE n = "entries" -> db.entries
                      [] n = "merkleTree" -> db.merkleTree
                      [] OTHER -> db.invertedIndex]) : db \in StoredDBs}
  \cup {Database(CurrentVersion + 1, [n \in StoreNames |-> {}])}

\* database.deleteObjectStore(storeName)
deleteObjectStore(stores, storeName) ==
  [n \in DOMAIN stores \ {storeName} |-> stores[n]]

\* database.createObjectStore(storeName, { keyPath })
createObjectStore(stores, storeName) ==
  [n \in DOMAIN stores \cup {storeName} |->
     IF n = storeName THEN {} ELSE stores[n]]

\* storeNames.forEach(storeName => database.deleteObjectStore(storeName))
RECURSIVE deleteObjectStores(_, _)
deleteObjectStores(stores, storeNames) ==
  IF storeNames = {} THEN stores
  ELSE LET storeName == CHOOSE n \in storeNames : TRUE
       IN deleteObjectStores(deleteObjectStore(stores, storeName),
                             storeNames \ {storeName})

\* faulty variant: the upgrade creates the stores that are missing and keeps
\* the others
onupgradeneededKeeping(database) ==
  Database(CurrentVersion,
           [n \in DOMAIN database.stores \cup StoreNames |->
              IF n \in DOMAIN database.stores THEN database.stores[n] ELSE {}])

\* request.onupgradeneeded: every store is deleted, the three are created
onupgradeneeded(database) ==
  Database(CurrentVersion,
           createObjectStore(
             createObjectStore(
               createObjectStore(
                 deleteObjectStores(database.stores, DOMAIN database.stores),
                 "entries"),
               "merkleTree"),
             "invertedIndex"))

\* the database after indexedDB.open(DB_NAME, 2): upgraded when its version
\* is lower, as it is otherwise
open(database) ==
  IF database.version < CurrentVersion THEN onupgradeneeded(database)
  ELSE database

\* initDB() on a stored database: the open request fails when the stored
\* version is higher, and db is the opened database otherwise
InitDBCall(p, database) ==
  /\ proc[p].pc \in {"idle", "settled"}
  /\ calls' = calls + 1
  /\ LET fault == IF database.version > CurrentVersion THEN "read" ELSE "none"
         opened == open(database)
     IN /\ proc' = [proc EXCEPT ![p] =
             [Settle([Idle EXCEPT !.op = "initDB"], fault) EXCEPT
                !.pre = database, !.post = opened]]
        /\ IF fault = "none"
             THEN /\ entries' = opened.stores["entries"]
                  /\ merkleTree' = opened.stores["merkleTree"]
                  /\ invertedIndex' = opened.stores["invertedIndex"]
             ELSE UNCHANGED tables
  /\ UNCHANGED now

InitDBInit ==
  /\ entries = {} /\ merkleTree = {} /\ invertedIndex = {}
  /\ now = 1
  /\ calls = 0
  /\ proc = [p \in Procs |-> Idle]

\* one caller opens one stored database after another
InitDBNext ==
  \E database \in Databases : calls < MaxOps /\ InitDBCall(1, database)

InitDBSpec == InitDBInit /\ [][InitDBNext]_vars

\* C31: destructive schema upgrade.  initDB on a database of a lower version
\* resolves, and afterwards the database has exactly the three stores
\* entries, merkleTree and invertedIndex, all of them empty.
C31_DestructiveUpgrade ==
  \A p \in Procs :
    (proc[p].op = "initDB" /\ proc[p].pre.version < CurrentVersion)
    => /\ proc[p].outcome = "resolved"
       /\ proc[p].post.version = CurrentVersion
       /\ DOMAIN proc[p].post.stores = StoreNames
       /\ \A n \in StoreNames : proc[p].post.stores[n] = {}

\* C31 witness: initDB has resolved on a database of version 1 that held
\* Entries, index rows in the old format and a store of another name
C31_Witness ==
  \E p \in Procs :
    /\ proc[p].op = "initDB"
    /\ proc[p].outcome = "resolved"
    /\ proc[p].pre.version = 1
    /\ DOMAIN proc[p].pre.stores = StoreNames \cup {"affirmations"}
    /\ proc[p].pre.stores["entries"] = TwoRoots.entries
    /\ proc[p].pre.stores["invertedIndex"] # TwoRoots.invertedIndex
    /\ proc[p].pre.stores["invertedIndex"] # {}
    /\ proc[p].pre.stores["affirmations"] # {}

\* C32: in every state the hashes that key the entries store are the hashes
\* that key the merkleTree store.
C32_SameKeys ==
  {e.hash : e \in entries} = {m.hash : m \in merkleTree}

\* C32 witness: a save and a delete have resolved, the hash deleted keys
\* neither store and the hash saved keys both
C32_Witness ==
  \E p, q \in Procs :
    /\ SaveResolved(p)
    /\ proc[q].op = "delete" /\ proc[q].outcome = "resolved"
    /\ get(entries, proc[q].hash) = undefined
    /\ get(merkleTree, proc[q].hash) = undefined
    /\ get(entries, proc[p].merkleEntry.hash) # undefined
    /\ get(merkleTree, proc[p].merkleEntry.hash) # undefined
    /\ Cardinality(entries) = 2

\* C33: in every state, the Entry and the version record of the same hash
\* have the same rootHash.
C33_SameRootHash ==
  \A e \in entries : \A m \in merkleTree :
    e.hash = m.hash => e.rootHash = m.rootHash

\* C33 witness: a save with an explicit parent has resolved, and its Entry
\* and its version record are stored with a rootHash that is not their hash
C33_Witness ==
  \E p \in Procs :
    /\ SaveResolved(p)
    /\ proc[p].given # Null
    /\ proc[p].merkleEntry \in merkleTree
    /\ proc[p].merkleEntry.rootHash # proc[p].merkleEntry.hash
    /\ get(entries, proc[p].merkleEntry.hash) # undefined
    /\ get(entries, proc[p].merkleEntry.hash).rootHash
         = proc[p].merkleEntry.rootHash

\* the hashes reached from the record of hash h by following at most n
\* parentHash links through the records of the store
RECURSIVE Ancestors(_, _, _)
Ancestors(merkle, h, n) ==
  IF n = 0 \/ get(merkle, h) = undefined \/ get(merkle, h).parentHash = Null
    THEN {}
    ELSE {get(merkle, h).parentHash}
         \cup Ancestors(merkle, get(merkle, h).parentHash, n - 1)

\* C34 (as claimed): parent links are acyclic.  In every state no version
\* record has its own hash as parentHash, and following parentHash links
\* from a record never leads back to it.
C34_ParentLinksAcyclic ==
  \A r \in merkleTree :
    /\ r.parentHash # r.hash
    /\ r.hash \notin Ancestors(merkleTree, r.hash, Cardinality(merkleTree))

\* C35 (as claimed): every Entry a search returns has a token of the query
\* among the words of its own title and description.
C35_ResultsMatchQuery ==
  \A p \in Procs :
    SearchResolved(p)
    => \A i \in 1..Len(proc[p].result) :
         Range(tokenize(proc[p].query))
           \cap Range(IndexWords(proc[p].result[i].content)) # {}

\* C36: no lost index postings under concurrency.  While saves are the only
\* calls that have been made, the root of every save that has committed is
\* among the postings of every word of its title and description, however
\* the steps of the saves of the two callers interleave.
C36_NoLostPostings ==
  \A p \in Procs :
    ( /\ SaveResolved(p)
      /\ calls <= 2
      /\ \A q \in Procs : proc[q].op \in {"none", "save"} )
    => \A w \in Range(IndexWords(proc[p].entryData)) :
         proc[p].merkleEntry.rootHash
           \in PostingsOf(getWord(invertedIndex, w))

\* C36 witness: two saves that both found the store empty have committed
\* documents of different roots that share a word, and the row of the word
\* lists both roots
C36_Witness ==
  \E p, q \in Procs :
    /\ SaveResolved(p) /\ SaveResolved(q)
    /\ calls = 2
    /\ proc[p].merkleEntry.action = "created"
    /\ proc[q].merkleEntry.action = "created"
    /\ proc[p].merkleEntry.rootHash # proc[q].merkleEntry.rootHash
    /\ \E row \in invertedIndex :
         /\ row.word \in Range(IndexWords(proc[p].entryData))
         /\ row.word \in Range(IndexWords(proc[q].entryData))
         /\ {proc[p].merkleEntry.rootHash, proc[q].merkleEntry.rootHash}
              \subseteq Range(row.rootHashes)

\* C37: search after delete, one caller.  A resolved search holds exactly
\* one Entry for every root posted under a token of the query that has a
\* version record left, and none for a root that has none; every Entry it
\* holds is stored, so its hash has not been deleted, and is the Entry of a
\* version record of the greatest timestamp left under its root.
C37_SearchAfterDelete ==
  \A p \in Procs :
    SearchResolved(p)
    => LET roots == {R \in RootHashesOf(invertedIndex, tokenize(proc[p].query)) :
                       LatestOfRoot(merkleTree, R) # {}}
       IN /\ Len(proc[p].result) = Cardinality(roots)
          /\ \A i \in 1..Len(proc[p].result) :
               /\ proc[p].result[i] \in entries
               /\ proc[p].result[i].rootHash \in roots
               /\ get(merkleTree, proc[p].result[i].hash)
                    \in LatestOfRoot(merkleTree, proc[p].result[i].rootHash)

\* C37 witness: a search, the second call made, has returned an Entry while
\* a token of its query is posted under a root that has neither a version
\* record nor an Entry left, which only a delete as the first call brings
\* about
C37_Witness ==
  \E p \in Procs :
    /\ SearchResolved(p)
    /\ calls = 2
    /\ Len(proc[p].result) >= 1
    /\ \E R \in RootHashesOf(invertedIndex, tokenize(proc[p].query)) :
         /\ LatestOfRoot(merkleTree, R) = {}
         /\ get(entries, R) = undefined

(***************************************************************************)
(* App.jsx: the form, the entry being viewed and the entry being edited.   *)
(* The state of the App component is the record of caller 1; a save of the *)
(* App runs to its end before the next event of the user.  The document    *)
(* saved is the title, the description and the hearted affirmations of the *)
(* form (mood and timestamp of entryData are left out).                    *)
(***************************************************************************)
\* the useState values of App after an event
AppState(title, description, affirmations, heartClicked, editingEntryHash, viewingEntry) ==
  [pc |-> "App", title |-> title, description |-> description,
   affirmations |-> affirmations, heartClicked |-> heartClicked,
   editingEntryHash |-> editingEntryHash, viewingEntry |-> viewingEntry]

\* the null of viewingEntry, a value that is no Entry
NullEntry == [null |-> TRUE]

\* useState(""), useState([]), useState({}), useState(null)
AppMounted == AppState(<<>>, <<>>, <<>>, FALSE, Null, NullEntry)

\* the user types a title and a description, has the affirmations generated
\* and clicks a heart
FillForm(d) ==
  /\ proc[1].affirmations = <<>>
  /\ proc' = [proc EXCEPT ![1] =
       [@ EXCEPT !.title = Field(d, "title"),
                 !.description = Field(d, "description"),
                 !.affirmations = Field(d, "affirmations"),
                 !.heartClicked = TRUE]]
  /\ UNCHANGED <<tables, now, calls>>

\* viewEntryDetails(entry), entry a search result
viewEntryDetails(entry) ==
  /\ proc' = [proc EXCEPT ![1] =
       AppState(Field(entry.content, "title"),
                Field(entry.content, "description"),
                Field(entry.content, "affirmations"),
                Field(entry.content, "affirmations") # <<>>,
                entry.hash, entry)]
  /\ UNCHANGED <<tables, now, calls>>

\* newEntry(): the form is emptied and viewingEntry set to null;
\* editingEntryHash is not set
newEntry(self) ==
  [self EXCEPT !.title = <<>>, !.description = <<>>, !.affirmations = <<>>,
               !.heartClicked = FALSE, !.viewingEntry = NullEntry]

\* the user clicks New Entry
NewEntryClick ==
  /\ proc' = [proc EXCEPT ![1] = newEntry(@)]
  /\ UNCHANGED <<tables, now, calls>>

\* the close button of the sidebar
CloseSidebarClick ==
  /\ proc[1].viewingEntry # NullEntry
  /\ proc' = [proc EXCEPT ![1] =
       [@ EXCEPT !.viewingEntry = NullEntry, !.editingEntryHash = Null]]
  /\ UNCHANGED <<tables, now, calls>>

\* autoSaveEntry(): saveToStorage(entryData, editingEntryHash), then the form
\* is emptied and editingEntryHash set to null
autoSaveEntry(dt) ==
  /\ proc[1].affirmations # <<>>
  /\ proc[1].heartClicked
  /\ now + dt <= MaxClock
  /\ now' = now + dt
  /\ calls' = calls + 1
  /\ LET entryData == Doc(proc[1].title, proc[1].description,
                          proc[1].affirmations)
         saved == Saved(DB, entryData, proc[1].editingEntryHash, now + dt)
     IN /\ entries' = saved.entries
        /\ merkleTree' = saved.merkleTree
        /\ invertedIndex' = saved.invertedIndex
  /\ proc' = [proc EXCEPT ![1] =
       [@ EXCEPT !.title = <<>>, !.description = <<>>, !.affirmations = <<>>,
                 !.heartClicked = FALSE, !.editingEntryHash = Null]]

AppInit ==
  /\ \E db \in StoredDBs :
       /\ entries = db.entries
       /\ merkleTree = db.merkleTree
       /\ invertedIndex = db.invertedIndex
  /\ now = 1
  /\ calls = 0
  /\ proc = [p \in Procs |-> IF p = 1 THEN AppMounted ELSE Idle]

AppNext ==
  \/ \E d \in Docs : FillForm(d)
  \/ \E entry \in entries : viewEntryDetails(entry)
  \/ NewEntryClick
  \/ CloseSidebarClick
  \/ \E dt \in {0, 1} : calls < MaxOps /\ autoSaveEntry(dt)

AppSpec == AppInit /\ [][AppNext]_vars

\* C38 (as claimed): caller-side parent tracking.  A save the App issues
\* while no entry is being viewed, as after New Entry, passes no parent
\* hash: the version record it writes is the root of its own chain.
C38_NewEntryHasNoParent ==
  [][(calls' = calls + 1 /\ proc[1].viewingEntry = NullEntry)
     => LET hash == hashEntry(Doc(proc[1].title, proc[1].description,
                                  proc[1].affirmations))
        IN /\ proc[1].editingEntryHash = Null
           /\ get(merkleTree', hash).rootHash = hash]_vars

====
